---- MODULE Spec2Model ----
(***************************************************************************)
(* tao-bot.py: parse a markdown book into section -> chapter -> passages,  *)
(* pick one chapter at random and post it to a webhook.                    *)
(*                                                                         *)
(* Text is modelled as sequences of one-character strings, so that         *)
(* startswith, lstrip, strip and join are computed character by character. *)
(***************************************************************************)
EXTENDS Integers, Sequences, FiniteSets, TLC

\* ------------------------------------------------------------------ bounds

\* Documents of up to MaxLines arbitrary lines are explored, alone and after
\* the two lines of Opening.
MaxLines == 4

\* The same for the documents of the specification with fairness, in which
\* whole behaviours are examined.
MaxFairLines == 2

\* ------------------------------------------------------------------ text

NL == "\n"

\* What str.strip() with no argument removes.
Whitespace == {" ", NL, "\t"}

\* Python's None, a value that is no text.
None == <<"None">>

\* Truth value of a `str | None` in a condition: None and "" are false.
Truthy(v) == v # None /\ v # <<>>

\* line.startswith(prefix)
StartsWith(line, prefix) ==
    /\ Len(line) >= Len(prefix)
    /\ SubSeq(line, 1, Len(prefix)) = prefix

\* s.lstrip(chars)
RECURSIVE LStrip(_, _)
LStrip(s, chars) ==
    IF s # <<>> /\ Head(s) \in chars THEN LStrip(Tail(s), chars) ELSE s

\* s.rstrip(chars)
RECURSIVE RStrip(_, _)
RStrip(s, chars) ==
    IF s # <<>> /\ s[Len(s)] \in chars
    THEN RStrip(SubSeq(s, 1, Len(s) - 1), chars)
    ELSE s

\* s.strip()
Strip(s) == LStrip(RStrip(s, Whitespace), Whitespace)

\* line.lstrip("#").strip(): the name carried by a heading line.
HeadingName(line) == Strip(LStrip(line, {"#"}))

\* sep.join(parts)
RECURSIVE Join(_, _)
Join(parts, sep) ==
    IF parts = <<>> THEN <<>>
    ELSE IF Len(parts) = 1 THEN parts[1]
    ELSE parts[1] \o sep \o Join(Tail(parts), sep)

SectionPrefix == <<"#", "#", " ">>
ChapterPrefix == <<"#", "#", "#", " ">>

\* ------------------------------------------------------------------ inputs

\* The lines a document is made of (as f.readlines() yields them).
Lines ==
    { <<"#", "#", " ", "A", NL>>,
      <<"#", "#", " ", "B", " ", NL>>,
      <<"#", "#", " ", NL>>,
      <<"#", "#", "#", " ", "1", NL>>,
      <<"#", "#", "#", " ", "2", NL>>,
      <<"#", "#", "#", " ", NL>>,
      <<"x", NL>>,
      <<" ", "y", " ", NL>>,
      <<NL>>,
      <<" ", NL>> }

RECURSIVE SeqsUpTo(_, _)
SeqsUpTo(S, n) ==
    IF n = 0 THEN { <<>> }
    ELSE LET shorter == SeqsUpTo(S, n - 1)
         IN  shorter \cup { Append(d, l) : d \in { e \in shorter : Len(e) = n - 1 }, l \in S }

\* A section heading and a chapter heading, so that the MaxLines lines after
\* them are all read with a chapter open.
Opening == << <<"#", "#", " ", "A", NL>>, <<"#", "#", "#", " ", "1", NL>> >>

\* The documents explored: every sequence of at most MaxLines lines, and
\* every such sequence after Opening.
Docs ==
    LET tails == SeqsUpTo(Lines, MaxLines)
    IN  tails \cup { Opening \o t : t \in tails }

\* The documents explored under fairness.
FairDocs ==
    LET tails == SeqsUpTo(Lines, MaxFairLines)
    IN  tails \cup { Opening \o t : t \in tails }

\* Response statuses and the one response body the endpoint may answer with
\* (a 100 is consumed by the HTTP client and never seen by the driver).
Statuses == {101, 200, 301, 404, 500}
ResponseText == <<"n", "o">>

\* What res holds while no response has been received.
NoResponse == [status_code |-> 0, text |-> <<>>]

\* ------------------------------------------------------------------ dicts

EmptyDict == [k \in {} |-> k]

\* d[k] = v on a dict
DictPut(d, k, v) == [x \in (DOMAIN d) \cup {k} |-> IF x = k THEN v ELSE d[x]]

\* ------------------------------------------------------------------ state

VARIABLES
    pc,         \* where the run is: "main", "open", "scan", "select", "env", "post", "exited"
    lines,      \* parse_book: the lines read from the file
    i,          \* parse_book: index of the line the for loop is at
    book,       \* the Book: section name -> chapter name -> list of passages
    section,    \* parse_book: current section name or None
    chapter,    \* parse_book: current chapter name or None
    phrase,     \* parse_book: the passage buffer, a list of stripped lines
    phraseIdx,  \* for each line in the buffer, its index in lines
    origin,     \* shaped like book: per chapter, the index of its heading line and,
                \* per passage, the indices of the lines it was joined from
    title,      \* main: title returned by random_phrase
    message,    \* main: message returned by random_phrase
    stdout,     \* what the run has printed
    exitCode,   \* process exit status, -1 while running
    traceback,  \* exception that ended the run unhandled, "none" otherwise
    sent,       \* number of requests posted to the webhook
    res         \* main: the response to the request, NoResponse before there is one

locals == <<lines, i, section, chapter, phrase, phraseIdx, origin>>
result == <<title, message>>
vars == <<pc, lines, i, book, section, chapter, phrase, phraseIdx, origin,
          title, message, stdout, exitCode, traceback, sent, res>>

Init ==
    /\ pc = "main"
    /\ lines = <<>>
    /\ i = 0
    /\ book = EmptyDict
    /\ section = None
    /\ chapter = None
    /\ phrase = <<>>
    /\ phraseIdx = <<>>
    /\ origin = EmptyDict
    /\ title = None
    /\ message = None
    /\ stdout = <<>>
    /\ exitCode = -1
    /\ traceback = "none"
    /\ sent = 0
    /\ res = NoResponse

\* ------------------------------------------------------------------ process end

\* print(text); sys.exit(1)
ExitWith(text, arg) ==
    /\ stdout' = Append(stdout, [text |-> text, arg |-> arg])
    /\ exitCode' = 1
    /\ pc' = "exited"
    /\ UNCHANGED traceback

\* An exception nobody catches: the interpreter writes the traceback to
\* standard error and the process ends with status 1.
Raise(exc) ==
    /\ traceback' = exc
    /\ exitCode' = 1
    /\ pc' = "exited"
    /\ UNCHANGED stdout

\* ------------------------------------------------------------------ main, part 1

\* main: resolve the path and test that it exists.
CheckPath ==
    /\ pc = "main"
    /\ \E exists \in BOOLEAN :
          IF exists
          THEN /\ pc' = "open"
               /\ UNCHANGED <<stdout, exitCode, traceback>>
          ELSE ExitWith("Error: not found", <<>>)
    /\ UNCHANGED <<locals, book, result, sent, res>>

\* ------------------------------------------------------------------ parse_book

\* open(path), f.readlines() and the initialisation of the locals, for a
\* file that holds one of the given documents.
ReadLinesFrom(docs) ==
    /\ pc = "open"
    /\ \/ /\ \E d \in docs : lines' = d
          /\ i' = 1
          /\ pc' = "scan"
          /\ UNCHANGED <<stdout, exitCode, traceback>>
       \/ /\ Raise("OSError")
          /\ UNCHANGED <<lines, i>>
    /\ book' = EmptyDict
    /\ section' = None
    /\ chapter' = None
    /\ phrase' = <<>>
    /\ UNCHANGED <<phraseIdx, origin, result, sent, res>>

Scanning == pc = "scan" /\ i <= Len(lines)

ReadLines == ReadLinesFrom(Docs)

ReadFairLines == ReadLinesFrom(FairDocs)

IsSectionLine(line) == StartsWith(line, SectionPrefix)
IsChapterLine(line) == StartsWith(line, ChapterPrefix)

\* A test that looks at the current section only.
SectionKnown_CurrentOnly(name, bk) == name = section

\* if section not in book:
SectionKnown(name, bk) == name \in DOMAIN bk

\* book[section] = {}
AddSection(bk, name) == DictPut(bk, name, EmptyDict)

\* A new section that keeps the chapter of the section before it.
ResetChapter_Keep(c) == c

\* chapter = None
ResetChapter(c) == None

\* A new section that keeps the lines buffered before it.
ResetPhrase_Keep(ph) == ph

\* phrase = []
ResetPhrase(ph) == <<>>

\* if line.startswith("## "):
SectionLine ==
    /\ Scanning
    /\ IsSectionLine(lines[i])
    /\ LET name == HeadingName(lines[i]) IN
       /\ section' = name
       /\ IF ~SectionKnown(name, book)
          THEN /\ book' = AddSection(book, name)
               /\ origin' = DictPut(origin, name, EmptyDict)
               /\ chapter' = ResetChapter(chapter)
               /\ phrase' = ResetPhrase(phrase)
               /\ phraseIdx' = IF ResetPhrase(phrase) = <<>> THEN <<>> ELSE phraseIdx
               /\ i' = i + 1
               /\ UNCHANGED <<pc, stdout, exitCode, traceback>>
          ELSE /\ ExitWith("Error: duplicate section", name)
               /\ UNCHANGED <<book, origin, chapter, phrase, phraseIdx, i>>
    /\ UNCHANGED <<lines, result, sent, res>>

\* A test that looks at the chapters of every section.
ChapterKnown_AnySection(name, bk, s) == \E t \in DOMAIN bk : name \in DOMAIN bk[t]

\* if chapter not in book[section]:
ChapterKnown(name, bk, s) == name \in DOMAIN bk[s]

\* An insertion that puts the chapter into every section of the Book.
AddChapter_Everywhere(bk, s, name) == [t \in DOMAIN bk |-> DictPut(bk[t], name, <<>>)]

\* book[section][chapter] = []
AddChapter(bk, s, name) == [bk EXCEPT ![s] = DictPut(@, name, <<>>)]

\* elif section and line.startswith("### "):
ChapterLine ==
    /\ Scanning
    /\ ~IsSectionLine(lines[i])
    /\ Truthy(section) /\ IsChapterLine(lines[i])
    /\ LET name == HeadingName(lines[i]) IN
       /\ chapter' = name
       /\ IF section \notin DOMAIN book
          THEN /\ Raise("KeyError")
               /\ UNCHANGED <<book, origin, i>>
          ELSE IF ~ChapterKnown(name, book, section)
          THEN /\ book' = AddChapter(book, section, name)
               /\ origin' = [origin EXCEPT ![section] =
                                DictPut(@, name, [head |-> i, passages |-> <<>>])]
               /\ i' = i + 1
               /\ UNCHANGED <<pc, stdout, exitCode, traceback>>
          ELSE /\ ExitWith("Error: duplicate chapter", name)
               /\ UNCHANGED <<book, origin, i>>
    /\ UNCHANGED <<lines, section, phrase, phraseIdx, result, sent, res>>

\* A flush that puts the passage at the front of the list.
FlushPhrase_Prepend(bk, s, c, ph) == [bk EXCEPT ![s][c] = <<Join(ph, <<NL>>)>> \o @]

\* A flush that overwrites the chapter's list with the new passage.
FlushPhrase_Replace(bk, s, c, ph) == [bk EXCEPT ![s][c] = <<Join(ph, <<NL>>)>>]

\* book[section][chapter].append("\n".join(phrase))
FlushPhrase(bk, s, c, ph) == [bk EXCEPT ![s][c] = Append(@, Join(ph, <<NL>>))]

\* A test that lets an empty buffer be flushed.
HasLines_Always(ph) == TRUE

\* elif phrase:
HasLines(ph) == ph # <<>>

\* not line.strip()
IsBlank(line) == Strip(line) = <<>>

\* elif section and chapter:
TextLine ==
    /\ Scanning
    /\ ~IsSectionLine(lines[i])
    /\ ~(Truthy(section) /\ IsChapterLine(lines[i]))
    /\ Truthy(section) /\ Truthy(chapter)
    /\ IF ~IsBlank(lines[i])
       THEN /\ phrase' = Append(phrase, Strip(lines[i]))
            /\ phraseIdx' = Append(phraseIdx, i)
            /\ i' = i + 1
            /\ UNCHANGED <<book, origin, pc, stdout, exitCode, traceback>>
       ELSE IF HasLines(phrase)
       THEN IF section \in DOMAIN book /\ chapter \in DOMAIN book[section]
            THEN /\ book' = FlushPhrase(book, section, chapter, phrase)
                 /\ origin' = [origin EXCEPT ![section][chapter].passages =
                                                Append(@, phraseIdx)]
                 /\ phrase' = <<>>
                 /\ phraseIdx' = <<>>
                 /\ i' = i + 1
                 /\ UNCHANGED <<pc, stdout, exitCode, traceback>>
            ELSE /\ Raise("KeyError")
                 /\ UNCHANGED <<book, origin, phrase, phraseIdx, i>>
       ELSE /\ i' = i + 1
            /\ UNCHANGED <<book, origin, phrase, phraseIdx, pc, stdout, exitCode, traceback>>
    /\ UNCHANGED <<lines, section, chapter, result, sent, res>>

\* A scan that passes over the line after an ignored line as well.
SkipLine_SkipsNext ==
    /\ Scanning
    /\ ~IsSectionLine(lines[i])
    /\ ~(Truthy(section) /\ IsChapterLine(lines[i]))
    /\ ~(Truthy(section) /\ Truthy(chapter))
    /\ i' = i + 2
    /\ UNCHANGED <<pc, lines, book, section, chapter, phrase, phraseIdx, origin,
                   result, stdout, exitCode, traceback, sent, res>>

\* A scan that buffers the lines it should ignore.
SkipLine_Buffers ==
    /\ Scanning
    /\ ~IsSectionLine(lines[i])
    /\ ~(Truthy(section) /\ IsChapterLine(lines[i]))
    /\ ~(Truthy(section) /\ Truthy(chapter))
    /\ i' = i + 1
    /\ phrase' = IF IsBlank(lines[i]) THEN phrase ELSE Append(phrase, Strip(lines[i]))
    /\ phraseIdx' = IF IsBlank(lines[i]) THEN phraseIdx ELSE Append(phraseIdx, i)
    /\ UNCHANGED <<pc, lines, book, section, chapter, origin,
                   result, stdout, exitCode, traceback, sent, res>>

\* A line none of the three branches takes: the loop moves on.
SkipLine ==
    /\ Scanning
    /\ ~IsSectionLine(lines[i])
    /\ ~(Truthy(section) /\ IsChapterLine(lines[i]))
    /\ ~(Truthy(section) /\ Truthy(chapter))
    /\ i' = i + 1
    /\ UNCHANGED <<pc, lines, book, section, chapter, phrase, phraseIdx, origin,
                   result, stdout, exitCode, traceback, sent, res>>

\* A return that first flushes what is left in the buffer.
ParseReturn_Flush ==
    /\ pc = "scan"
    /\ i > Len(lines)
    /\ pc' = "select"
    /\ book' = IF phrase # <<>> /\ Truthy(section) /\ Truthy(chapter)
               THEN FlushPhrase(book, section, chapter, phrase)
               ELSE book
    /\ lines' = <<>>
    /\ i' = 0
    /\ section' = None
    /\ chapter' = None
    /\ phrase' = <<>>
    /\ phraseIdx' = <<>>
    /\ origin' = EmptyDict
    /\ UNCHANGED <<result, stdout, exitCode, traceback, sent, res>>

\* return book: the loop is over, the locals of parse_book are gone and
\* main holds the Book.
ParseReturn ==
    /\ pc = "scan"
    /\ i > Len(lines)
    /\ pc' = "select"
    /\ lines' = <<>>
    /\ i' = 0
    /\ section' = None
    /\ chapter' = None
    /\ phrase' = <<>>
    /\ phraseIdx' = <<>>
    /\ origin' = EmptyDict
    /\ UNCHANGED <<book, result, stdout, exitCode, traceback, sent, res>>

\* ------------------------------------------------------------------ random_phrase

ChapterWord == <<" ", "-", " ", "C", "h", "a", "p", "t", "e", "r", " ">>

\* f"{section} - Chapter {chapter}"
PhraseTitle(s, c) == s \o ChapterWord \o c

\* A text whose passages are one newline apart.
PhraseText_SingleNewline(bk, s, c) == Join(bk[s][c], <<NL>>)

\* "\n\n".join(book[section][chapter])
PhraseText(bk, s, c) == Join(bk[s][c], <<NL, NL>>)

\* A selection that takes the chosen chapter out of the Book.
RandomPhrase_Consumes ==
    /\ pc = "select"
    /\ IF DOMAIN book = {}
       THEN /\ Raise("IndexError")
            /\ UNCHANGED <<result, book>>
       ELSE \E s \in DOMAIN book :
               IF DOMAIN book[s] = {}
               THEN /\ Raise("IndexError")
                    /\ UNCHANGED <<result, book>>
               ELSE \E c \in DOMAIN book[s] :
                       /\ title' = PhraseTitle(s, c)
                       /\ message' = PhraseText(book, s, c)
                       /\ book' = [book EXCEPT ![s] = [d \in (DOMAIN book[s]) \ {c} |-> book[s][d]]]
                       /\ pc' = "env"
                       /\ UNCHANGED <<stdout, exitCode, traceback>>
    /\ UNCHANGED <<locals, sent, res>>

\* title, message = random_phrase(book); random.choice of an empty list
\* raises IndexError.
RandomPhrase ==
    /\ pc = "select"
    /\ IF DOMAIN book = {}
       THEN /\ Raise("IndexError")
            /\ UNCHANGED result
       ELSE \E s \in DOMAIN book :
               IF DOMAIN book[s] = {}
               THEN /\ Raise("IndexError")
                    /\ UNCHANGED result
               ELSE \E c \in DOMAIN book[s] :
                       /\ title' = PhraseTitle(s, c)
                       /\ message' = PhraseText(book, s, c)
                       /\ pc' = "env"
                       /\ UNCHANGED <<stdout, exitCode, traceback>>
    /\ UNCHANGED <<locals, book, sent, res>>

\* ------------------------------------------------------------------ main, part 2

\* What os.getenv("SLACK_WEBHOOK") may return.
Webhooks == {None, <<>>, <<"u">>}

\* webhook = os.getenv("SLACK_WEBHOOK"); if not webhook: ...
GetWebhook ==
    /\ pc = "env"
    /\ \E webhook \in Webhooks :
          IF ~Truthy(webhook)
          THEN ExitWith("Error: SLACK_WEBHOOK environment variable not set", <<>>)
          ELSE /\ pc' = "post"
               /\ UNCHANGED <<stdout, exitCode, traceback>>
    /\ UNCHANGED <<locals, book, result, sent, res>>

\* requests.Response.ok: raise_for_status() does not raise, that is the
\* status is below 400.
ResponseOk(status) == status < 400

\* A driver that posts again after a response that is not ok.
Post_Retry ==
    /\ pc = "post"
    /\ sent' = sent + 1
    /\ \/ /\ Raise("RequestException")
          /\ UNCHANGED res
       \/ \E status \in Statuses :
             /\ res' = [status_code |-> status, text |-> ResponseText]
             /\ IF ~ResponseOk(status)
                THEN IF sent = 0
                     THEN UNCHANGED <<pc, stdout, exitCode, traceback>>
                     ELSE ExitWith("Error: status", <<status, ResponseText>>)
                ELSE /\ stdout' = Append(stdout, [text |-> "Message sent", arg |-> <<>>])
                     /\ exitCode' = 0
                     /\ pc' = "exited"
                     /\ UNCHANGED traceback
    /\ UNCHANGED <<locals, book, result>>

\* res = requests.post(...); if not res.ok: ... else: print("Message sent")
Post ==
    /\ pc = "post"
    /\ sent' = sent + 1
    /\ \/ /\ Raise("RequestException")
          /\ UNCHANGED res
       \/ \E status \in Statuses :
             /\ res' = [status_code |-> status, text |-> ResponseText]
             /\ IF ~ResponseOk(status)
                THEN ExitWith("Error: status", <<status, ResponseText>>)
                ELSE /\ stdout' = Append(stdout, [text |-> "Message sent", arg |-> <<>>])
                     /\ exitCode' = 0
                     /\ pc' = "exited"
                     /\ UNCHANGED traceback
    /\ UNCHANGED <<locals, book, result>>

\* ------------------------------------------------------------------ specification

Next ==
    \/ CheckPath
    \/ ReadLines
    \/ SectionLine
    \/ ChapterLine
    \/ TextLine
    \/ SkipLine
    \/ ParseReturn
    \/ RandomPhrase
    \/ GetWebhook
    \/ Post

Spec == Init /\ [][Next]_vars

FairNext ==
    \/ CheckPath
    \/ ReadFairLines
    \/ SectionLine
    \/ ChapterLine
    \/ TextLine
    \/ SkipLine
    \/ ParseReturn
    \/ RandomPhrase
    \/ GetWebhook
    \/ Post

\* The interpreter runs the one thread of the program until the process
\* ends: a step that can be taken is taken.
FairSpec == Init /\ [][FairNext]_vars /\ WF_vars(FairNext)

\* ------------------------------------------------------------------ vocabulary of the properties

Last(seq) == seq[Len(seq)]

\* text.split(ch): the pieces of text between the occurrences of ch.
RECURSIVE SplitOn(_, _)
SplitOn(text, ch) ==
    IF \A k \in 1..Len(text) : text[k] # ch
    THEN << text >>
    ELSE LET k == CHOOSE j \in 1..Len(text) :
                     text[j] = ch /\ \A m \in 1..(j - 1) : text[m] # ch
         IN  << SubSeq(text, 1, k - 1) >> \o SplitOn(SubSeq(text, k + 1, Len(text)), ch)

\* The stripped text of the input lines with the given indices.
StrippedAt(idxs) == [k \in 1..Len(idxs) |-> Strip(lines[idxs[k]])]

\* A blank line is being read with a section and a chapter open.
BlankInChapter ==
    /\ Scanning
    /\ Strip(lines[i]) = <<>>
    /\ Truthy(section) /\ Truthy(chapter)

\* C1: a blank line read with a section and a chapter open and a non-empty
\* buffer appends exactly one passage to the end of the current chapter's
\* list, the passage is the buffered lines, each the stripped text of the
\* input line it was read from, in reading order and separated by newlines,
\* and the buffer is empty afterwards; with an empty buffer the blank line
\* changes neither the Book nor the buffer.
C1_BlankLineFlushesBuffer ==
    [][ BlankInChapter =>
          IF phrase # <<>>
          THEN /\ Len(book'[section][chapter]) = Len(book[section][chapter]) + 1
               /\ LET p == Last(book'[section][chapter]) IN
                     /\ book' = [book EXCEPT ![section][chapter] = book[section][chapter] \o <<p>>]
                     /\ SplitOn(p, NL) = phrase
               /\ phrase = StrippedAt(phraseIdx)
               /\ \A k \in 1..(Len(phraseIdx) - 1) : phraseIdx[k] < phraseIdx[k + 1]
               /\ phrase' = <<>>
          ELSE /\ book' = book
               /\ phrase' = phrase
      ]_vars

\* A two-line passage has been flushed into a chapter and the buffer is empty.
C1_Witness ==
    /\ pc = "scan"
    /\ phrase = <<>>
    /\ i > 1 /\ Strip(lines[i - 1]) = <<>>
    /\ \E s \in DOMAIN book : \E c \in DOMAIN book[s] :
          /\ book[s][c] # <<>>
          /\ Len(SplitOn(Last(book[s][c]), NL)) = 2

\* The indices of the input lines that make up the recorded passages.
RecordedIdx ==
    { origin[s][c].passages[n][k] :
        <<s, c, n, k>> \in { q \in (DOMAIN origin) \X (UNION { DOMAIN origin[t] : t \in DOMAIN origin })
                                   \X (1..Len(lines)) \X (1..Len(lines)) :
                                /\ q[2] \in DOMAIN origin[q[1]]
                                /\ q[3] \in 1..Len(origin[q[1]][q[2]].passages)
                                /\ q[4] \in 1..Len(origin[q[1]][q[2]].passages[q[3]]) } }

\* The scan is at the end of the input.
AtEndOfInput == pc = "scan" /\ i > Len(lines)

\* C2: when the scan reaches the end of the input with a non-empty buffer the
\* buffer is not flushed: the Book that is returned is the Book as it stood
\* after the last line, and no line still in the buffer is part of any of
\* its passages.
C2_TrailingBufferIsDropped ==
    [][ (AtEndOfInput /\ phrase # <<>>) =>
          /\ pc' = "select"
          /\ book' = book
          /\ \A k \in 1..Len(phraseIdx) : phraseIdx[k] \notin RecordedIdx
          /\ phrase = StrippedAt(phraseIdx)
      ]_vars

\* The document of the specification's example, ending right after its last
\* content line: one passage is recorded and one line is left in the buffer.
C2_Witness ==
    /\ AtEndOfInput
    /\ Len(lines) = 6
    /\ phrase = << <<"x">> >>
    /\ phraseIdx = <<6>>
    /\ DOMAIN book = { <<"A">> }
    /\ book[<<"A">>][<<"1">>] = << <<"x", NL, "y">> >>

\* The index of the most recent level-1 heading read before line k, 0 if none.
SectionHeadBefore(k) ==
    LET heads == { j \in 1..(k - 1) : IsSectionLine(lines[j]) }
    IN  IF heads = {} THEN 0 ELSE CHOOSE j \in heads : \A m \in heads : m <= j

\* A level-1 heading read before line k carries the name.
SectionNameSeenBefore(name, k) ==
    \E j \in 1..(k - 1) : IsSectionLine(lines[j]) /\ HeadingName(lines[j]) = name

DuplicateSectionMessage(name) == [text |-> "Error: duplicate section", arg |-> name]
DuplicateChapterMessage(name) == [text |-> "Error: duplicate chapter", arg |-> name]

\* The step ends the run with the given message printed.
FailsWith(msg) ==
    /\ pc' = "exited"
    /\ exitCode' = 1
    /\ traceback' = "none"
    /\ stdout' = Append(stdout, msg)
    /\ i' = i
    /\ book' = book

\* C3: reading a line fails with the duplicate-section error exactly when
\* the line is a level-1 heading whose stripped name is the name of a
\* level-1 heading read earlier, anywhere in the document, which is when
\* the name is a section of the Book; the run ends at that line, nothing
\* is processed after it and no Book is returned.  A level-1 heading with
\* a new name is accepted.
C3_DuplicateSectionFails ==
    [][ /\ Scanning =>
            LET name == HeadingName(lines[i])
                dup  == IsSectionLine(lines[i]) /\ SectionNameSeenBefore(name, i)
            IN  /\ dup <=> (IsSectionLine(lines[i]) /\ name \in DOMAIN book)
                /\ dup <=> FailsWith(DuplicateSectionMessage(name))
                /\ dup <=> (Len(stdout') > Len(stdout) /\
                            Last(stdout').text = "Error: duplicate section")
                /\ (IsSectionLine(lines[i]) /\ ~dup) =>
                      (pc' = "scan" /\ i' = i + 1 /\ name \in DOMAIN book')
        /\ (pc = "exited") => UNCHANGED vars
      ]_vars

\* The run has ended on a level-1 heading that repeats a section which is
\* not the current one.
C3_Witness ==
    /\ pc = "exited"
    /\ stdout = << DuplicateSectionMessage(<<"A">>) >>
    /\ i = 3
    /\ HeadingName(lines[2]) = <<"B">>
    /\ Cardinality(DOMAIN book) = 2

\* C4: reading a line fails with the duplicate-chapter error exactly when
\* the line is a level-2 heading, a section is open and the stripped name is
\* already a chapter of the section opened by the most recent level-1
\* heading; the same name under another section is accepted and becomes a
\* chapter of its own there.  On failure the run ends at that line and no
\* Book is returned.
C4_DuplicateChapterFails ==
    [][ /\ Scanning =>
            LET name == HeadingName(lines[i])
                h    == SectionHeadBefore(i)
                cur  == HeadingName(lines[h])
                head == ~IsSectionLine(lines[i]) /\ IsChapterLine(lines[i]) /\ h > 0
                dup  == head /\ name \in DOMAIN book[cur]
            IN  /\ dup <=> FailsWith(DuplicateChapterMessage(name))
                /\ dup <=> (Len(stdout') > Len(stdout) /\
                            Last(stdout').text = "Error: duplicate chapter")
                /\ (head /\ ~dup /\ cur # <<>>) =>
                      /\ pc' = "scan" /\ i' = i + 1
                      /\ name \in DOMAIN book'[cur]
                      /\ \A t \in DOMAIN book : t # cur => book'[t] = book[t]
        /\ (pc = "exited") => UNCHANGED vars
      ]_vars

\* Two sections each have a chapter named 1.
C4_Witness ==
    /\ pc = "scan"
    /\ DOMAIN book = { <<"A">>, <<"B">> }
    /\ <<"1">> \in DOMAIN book[<<"A">>]
    /\ <<"1">> \in DOMAIN book[<<"B">>]
    /\ origin[<<"A">>][<<"1">>].head # origin[<<"B">>][<<"1">>].head

\* Every passage of the Book.
Passages ==
    UNION { { book[s][c][n] : n \in 1..Len(book[s][c]) } :
              <<s, c>> \in { q \in (DOMAIN book) \X (UNION { DOMAIN book[t] : t \in DOMAIN book }) :
                               q[2] \in DOMAIN book[q[1]] } }

\* C5: at every point of the scan and in the returned Book every passage is
\* non-empty: it has at least one line and each of its lines is non-blank
\* and stripped; and a passage is only recorded from a buffer that holds at
\* least one line.
C5_PassagesAreNonEmpty ==
    /\ \A p \in Passages :
          /\ p # <<>>
          /\ \A k \in 1..Len(SplitOn(p, NL)) :
                LET l == SplitOn(p, NL)[k] IN l # <<>> /\ Strip(l) = l
    /\ \A s \in DOMAIN origin : \A c \in DOMAIN origin[s] :
          /\ Len(origin[s][c].passages) = Len(book[s][c])
          /\ \A n \in 1..Len(origin[s][c].passages) :
                Len(origin[s][c].passages[n]) >= 1

\* A Book with a passage has been returned.
C5_Witness ==
    /\ pc = "select"
    /\ Passages # {}

\* A level-1 or level-2 heading line.
IsHeadingLine(line) == IsSectionLine(line) \/ IsChapterLine(line)

\* C6: every recorded passage is one block of contiguous non-blank input
\* lines: its lines are consecutive lines of the input, none of them blank
\* or a heading, and all of them were read after the heading of the chapter
\* the passage is recorded under.
C6_PassagesAreContiguousBlocks ==
    \A s \in DOMAIN origin : \A c \in DOMAIN origin[s] :
       \A n \in 1..Len(origin[s][c].passages) :
          LET idxs == origin[s][c].passages[n] IN
          /\ \A k \in 1..Len(idxs) : idxs[k] > origin[s][c].head
          /\ \A k \in 1..(Len(idxs) - 1) : idxs[k + 1] = idxs[k] + 1
          /\ idxs # <<>> =>
                \A j \in idxs[1]..idxs[Len(idxs)] :
                   Strip(lines[j]) # <<>> /\ ~IsHeadingLine(lines[j])

\* C7: an accepted level-2 heading creates exactly one chapter entry, with
\* an empty passage list, under the section opened by the most recent
\* level-1 heading; the chapters already there and every other section are
\* unchanged, so no two chapter entries come from the same heading.
C7_ChapterGoesToOneSection ==
    [][ Scanning =>
          LET name == HeadingName(lines[i])
              h    == SectionHeadBefore(i)
              cur  == HeadingName(lines[h])
              accepted == /\ ~IsSectionLine(lines[i]) /\ IsChapterLine(lines[i])
                          /\ h > 0 /\ cur # <<>>
                          /\ pc' = "scan"
          IN  accepted =>
                /\ name \notin DOMAIN book[cur]
                /\ DOMAIN book' = DOMAIN book
                /\ DOMAIN book'[cur] = DOMAIN book[cur] \cup {name}
                /\ book'[cur][name] = <<>>
                /\ \A c \in DOMAIN book[cur] : book'[cur][c] = book[cur][c]
                /\ \A t \in DOMAIN book : t # cur => book'[t] = book[t]
                /\ origin'[cur][name].head = i
                /\ \A t \in DOMAIN origin : \A c \in DOMAIN origin[t] :
                      origin[t][c].head < i
      ]_vars

\* A chapter was created in the second section while the first section has
\* a chapter of another name.
C7_Witness ==
    /\ pc = "scan"
    /\ DOMAIN book = { <<"A">>, <<"B">> }
    /\ DOMAIN book[<<"A">>] = { <<"1">> }
    /\ DOMAIN book[<<"B">>] = { <<"2">> }

\* Number of characters before the k-th part in the parts joined with a
\* separator of sepLen characters.
RECURSIVE OffsetOf(_, _, _)
OffsetOf(parts, k, sepLen) ==
    IF k = 1 THEN 0
    ELSE OffsetOf(parts, k - 1, sepLen) + Len(parts[k - 1]) + sepLen

\* text is the parts in order, with sep between two neighbours and nothing else.
IsJoinOf(text, parts, sep) ==
    IF parts = <<>> THEN text = <<>>
    ELSE LET n == Len(parts) IN
         /\ Len(text) = OffsetOf(parts, n, Len(sep)) + Len(parts[n])
         /\ \A k \in 1..n :
               LET from == OffsetOf(parts, k, Len(sep)) IN
               /\ SubSeq(text, from + 1, from + Len(parts[k])) = parts[k]
               /\ k < n => SubSeq(text, from + Len(parts[k]) + 1,
                                        from + Len(parts[k]) + Len(sep)) = sep

\* The title "<s> - Chapter <c>".
IsTitleOf(text, s, c) ==
    text = s \o <<" ", "-", " ", "C", "h", "a", "p", "t", "e", "r", " ">> \o c

C9_SelectorFailureIsReported ==
    [][ (pc = "select" /\ pc' = "exited") =>
          /\ traceback' = "none"
          /\ Len(stdout') = Len(stdout) + 1
      ]_vars

\* The one-line diagnostics of the driver and the parser.
Diagnostics ==
    { "Error: not found",
      "Error: duplicate section",
      "Error: duplicate chapter",
      "Error: SLACK_WEBHOOK environment variable not set",
      "Error: status" }

\* C10: every run ends either with exit code 0 after a successful delivery,
\* or with exit code 1 after printing one diagnostic line to standard
\* output, whatever made the run fail.
C10_RunEndsDeliveredOrDiagnosed ==
    (pc = "exited") =>
       \/ /\ exitCode = 0
          /\ traceback = "none"
          /\ sent = 1
          /\ stdout = << [text |-> "Message sent", arg |-> <<>>] >>
       \/ /\ exitCode = 1
          /\ traceback = "none"
          /\ Len(stdout) = 1
          /\ stdout[1].text \in Diagnostics

\* The run ended after the endpoint answered the request.
Answered == pc = "exited" /\ sent = 1 /\ traceback = "none"

\* C11: the delivery counts as successful ("Message sent", exit code 0)
\* exactly when the response status is a 2xx status; for every other status
\* the driver reports the status code and the response body and exits with
\* code 1.
C11_SuccessIffStatus2xx ==
    Answered =>
       IF 200 <= res.status_code /\ res.status_code <= 299
       THEN /\ exitCode = 0
            /\ stdout = << [text |-> "Message sent", arg |-> <<>>] >>
       ELSE /\ exitCode = 1
            /\ stdout = << [text |-> "Error: status",
                            arg |-> <<res.status_code, res.text>>] >>

\* The diagnostics of the runs that fail before a request can be sent.
EarlyDiagnostics ==
    { "Error: not found",
      "Error: duplicate section",
      "Error: duplicate chapter",
      "Error: SLACK_WEBHOOK environment variable not set" }

\* C12: at most one request is sent in a run, and only by the step that
\* follows, in this order, the path check, the return of parse_book, the
\* selection and the finding of a webhook; a run that fails for a missing
\* file, a duplicate heading, an empty Book or a missing webhook has sent
\* nothing; after a request the run is over, so a failed request is not
\* sent again.
C12_OneRequestAfterAllChecks ==
    /\ [](/\ sent \in {0, 1}
          /\ (sent = 1) => (pc = "exited" /\ title # None /\ message # None)
          /\ (pc = "post") => (title # None /\ message # None)
          /\ (pc = "exited" /\ stdout # <<>> /\ stdout[1].text \in EarlyDiagnostics) => sent = 0
          /\ (pc = "exited" /\ traceback \in {"IndexError", "OSError", "KeyError"}) => sent = 0)
    /\ [][ /\ (sent' # sent) => (pc = "post" /\ sent = 0 /\ sent' = 1 /\ pc' = "exited")
           /\ (pc' = "post" /\ pc # "post") => pc = "env"
           /\ (pc' = "env" /\ pc # "env") => (pc = "select" /\ title' # None)
           /\ (pc' = "select" /\ pc # "select") => (pc = "scan" /\ i > Len(lines) /\ book' = book)
           /\ (pc' = "scan" /\ pc # "scan") => pc = "open"
           /\ (pc' = "open") => pc = "main"
           /\ (pc = "exited") => UNCHANGED vars
      ]_vars

\* A request was sent, the endpoint refused it and the run ended.
C12_Witness ==
    /\ Answered
    /\ res.status_code = 500
    /\ exitCode = 1
    /\ title # None

\* The name of the section opened by the most recent level-1 heading read
\* before line k (there must be one).
SectionOpenAt(k) == HeadingName(lines[SectionHeadBefore(k)])

\* C13: a line that is not a level-1 heading and is read while no section
\* is open, or that is not a level-2 heading either and is read while the
\* current section has no chapter yet, is ignored: the Book, the current
\* section, the current chapter and the buffer stay as they are and the scan
\* moves to the next line.
C13_LinesOutsideChapterAreIgnored ==
    [][ Scanning =>
          LET h == SectionHeadBefore(i)
              noSection == h = 0
              noChapter == h > 0 /\ ~IsChapterLine(lines[i])
                                 /\ DOMAIN book[SectionOpenAt(i)] = {}
          IN  (~IsSectionLine(lines[i]) /\ (noSection \/ noChapter)) =>
                 /\ book' = book
                 /\ section' = section
                 /\ chapter' = chapter
                 /\ phrase' = phrase
                 /\ phrase = <<>>
                 /\ pc' = "scan"
                 /\ i' = i + 1
      ]_vars

\* A level-2 heading before any section and a content line between a
\* level-1 heading and the first level-2 heading have been passed over.
C13_Witness ==
    /\ pc = "scan"
    /\ i = 4
    /\ IsChapterLine(lines[1])
    /\ IsSectionLine(lines[2])
    /\ Strip(lines[3]) = <<"x">>
    /\ DOMAIN book = { <<"A">> }
    /\ book[<<"A">>] = EmptyDict
    /\ phrase = <<>>
    /\ chapter = None

\* The index of the level-1 heading that opened section s.
SectionHeadOf(s) ==
    CHOOSE j \in 1..(i - 1) : IsSectionLine(lines[j]) /\ HeadingName(lines[j]) = s

\* C14: an accepted level-1 heading leaves the new section in the Book with
\* an empty chapter map, no current chapter and an empty buffer, and what
\* was recorded under the earlier sections as it was; the lines that were in
\* the buffer are in no passage: every line of a passage was read after the
\* heading of the section the passage is in.
C14_NewSectionResets ==
    /\ [][ Scanning =>
             LET name == HeadingName(lines[i]) IN
             (IsSectionLine(lines[i]) /\ ~SectionNameSeenBefore(name, i)) =>
                /\ DOMAIN book' = DOMAIN book \cup {name}
                /\ name \notin DOMAIN book
                /\ book'[name] = EmptyDict
                /\ \A t \in DOMAIN book : book'[t] = book[t]
                /\ section' = name
                /\ chapter' = None
                /\ phrase' = <<>>
                /\ \A k \in 1..Len(phraseIdx) : phraseIdx[k] \notin RecordedIdx
                /\ pc' = "scan" /\ i' = i + 1
         ]_vars
    /\ [](pc = "scan" =>
            \A s \in DOMAIN origin : \A c \in DOMAIN origin[s] :
               \A n \in 1..Len(origin[s][c].passages) :
                  \A k \in 1..Len(origin[s][c].passages[n]) :
                     origin[s][c].passages[n][k] > SectionHeadOf(s))

\* A second section was opened while a line of the first section's chapter
\* was still in the buffer.
C14_Witness ==
    /\ pc = "scan"
    /\ i = 5
    /\ IsChapterLine(lines[2])
    /\ Strip(lines[3]) = <<"y">>
    /\ IsSectionLine(lines[4])
    /\ DOMAIN book = { <<"A">>, <<"B">> }
    /\ book[<<"B">>] = EmptyDict
    /\ DOMAIN book[<<"A">>] = { <<"1">> }
    /\ book[<<"A">>][<<"1">>] = <<>>
    /\ section = <<"B">>
    /\ chapter = None
    /\ phrase = <<>>

\* C15: while the scan runs, every section of the Book has a chapter map and
\* every chapter a passage list; a current section, once set, is a key of
\* the Book and a current chapter, once set, a key of the current section's
\* chapter map, so that a flush always finds its chapter.
C15_CurrentEntriesExist ==
    /\ (pc = "scan") =>
          /\ \A s \in DOMAIN book : \A c \in DOMAIN book[s] :
                DOMAIN book[s][c] = 1..Len(book[s][c])
          /\ (section # None) => section \in DOMAIN book
          /\ (chapter # None) => (section # None /\ chapter \in DOMAIN book[section])
    /\ traceback # "KeyError"

\* The scan is inside a chapter of the second section with a line buffered.
C15_Witness ==
    /\ pc = "scan"
    /\ Cardinality(DOMAIN book) = 2
    /\ section = <<"B">>
    /\ chapter = <<"2">>
    /\ phrase # <<>>

\* A level-2 heading is being read after a level-1 heading.
ChapterHeadingInSection ==
    /\ Scanning
    /\ ~IsSectionLine(lines[i]) /\ IsChapterLine(lines[i])
    /\ SectionHeadBefore(i) > 0

\* C16: every level-2 heading read after a level-1 heading is acted on,
\* whatever the name of the section, the empty name included: it creates a
\* chapter in the section opened by the most recent level-1 heading or it
\* fails with the duplicate-chapter error.
C16_ChapterHeadingIsActedOn ==
    [][ ChapterHeadingInSection =>
          LET name == HeadingName(lines[i])
              cur  == SectionOpenAt(i)
          IN  \/ /\ name \notin DOMAIN book[cur]
                 /\ name \in DOMAIN book'[cur]
                 /\ pc' = "scan"
              \/ FailsWith(DuplicateChapterMessage(name))
      ]_vars

\* A content line is being read in a section in which a level-2 heading
\* was accepted.
ContentInChapter ==
    /\ Scanning
    /\ ~IsHeadingLine(lines[i])
    /\ Strip(lines[i]) # <<>>
    /\ SectionHeadBefore(i) > 0
    /\ DOMAIN book[SectionOpenAt(i)] # {}

\* C17: every non-blank line that is no heading and is read after an
\* accepted level-2 heading and before the next level-1 heading goes into
\* the buffer, whatever the name of the chapter, the empty name included.
C17_ContentLineIsBuffered ==
    [][ ContentInChapter =>
          /\ phrase' = Append(phrase, Strip(lines[i]))
          /\ pc' = "scan"
      ]_vars

\* Number of sections, chapters and passages of a Book.
BookSize(bk) ==
    LET chapters == { q \in (DOMAIN bk) \X (UNION { DOMAIN bk[t] : t \in DOMAIN bk }) :
                        q[2] \in DOMAIN bk[q[1]] }
    IN  Cardinality(DOMAIN bk) + Cardinality(chapters)
        + Cardinality({ r \in chapters \X (1..(MaxLines + 2)) : r[2] <= Len(bk[r[1][1]][r[1][2]]) })

\* C18: the Book only grows: a step removes or renames no section and no
\* chapter, leaves every recorded passage in place and unchanged, adds at
\* most one section, chapter or passage, and adds a passage only at the end
\* of the chapter that is current at that step.
C18_BookOnlyGrows ==
    [][ /\ DOMAIN book \subseteq DOMAIN book'
        /\ \A s \in DOMAIN book :
              /\ DOMAIN book[s] \subseteq DOMAIN book'[s]
              /\ \A c \in DOMAIN book[s] :
                    /\ Len(book[s][c]) <= Len(book'[s][c])
                    /\ SubSeq(book'[s][c], 1, Len(book[s][c])) = book[s][c]
                    /\ Len(book[s][c]) < Len(book'[s][c]) =>
                          (Scanning /\ s = section /\ c = chapter)
        /\ BookSize(book') <= BookSize(book) + 1
        /\ \A s \in DOMAIN book' : \A c \in DOMAIN book'[s] :
              (s \notin DOMAIN book \/ c \notin DOMAIN book[s]) => book'[s][c] = <<>>
      ]_vars

\* The scan has put a second passage into a chapter.
C18_Witness ==
    /\ pc = "scan"
    /\ \E s \in DOMAIN book : \E c \in DOMAIN book[s] :
          /\ Len(book[s][c]) = 2
          /\ book[s][c][1] # book[s][c][2]
          /\ s = section /\ c = chapter

\* C19: once parse_book has returned the Book, random_phrase and the
\* delivery steps of the driver leave it as it is.
C19_BookIsReadOnlyAfterParse ==
    [][ (pc \in {"select", "env", "post"}) => book' = book ]_vars

\* A chapter of a Book with passages was selected and delivered.
C19_Witness ==
    /\ Answered
    /\ exitCode = 0
    /\ res.status_code = 200
    /\ Passages # {}
    /\ message # <<>>

\* C20: the scan reads the lines one by one in input order, each once: a
\* scan step keeps the input and either moves to the next line or ends the
\* run on a duplicate heading, and parse_book returns only after the last
\* line; every scan ends, and every run reaches its end.
C20_ScanAndRunTerminate ==
    /\ [][ /\ Scanning =>
                /\ lines' = lines
                /\ \/ pc' = "scan" /\ i' = i + 1
                   \/ /\ pc' = "exited" /\ i' = i
                      /\ IsHeadingLine(lines[i])
                      /\ Last(stdout').text \in {"Error: duplicate section",
                                                 "Error: duplicate chapter"}
           /\ (pc = "scan") => (1 <= i /\ i <= Len(lines) + 1)
           /\ (pc = "scan" /\ pc' = "select") => i = Len(lines) + 1
      ]_vars
    /\ (pc = "scan") ~> (pc \in {"select", "exited"})
    /\ <>(pc = "exited")

\* The run ended on a duplicate heading with lines left unread.
C20_Witness ==
    /\ pc = "exited"
    /\ stdout = << DuplicateChapterMessage(<<"1">>) >>
    /\ i < Len(lines)
    /\ i > 2

====
